---- MODULE Spec2Model ----
(***************************************************************************)
(* A model of poropyck/pick_dtw.py: the two Signal objects (template,      *)
(* query), the Poropyck mouse handlers that drive them, the time-pick      *)
(* statistics, the DTW step and the Monte Carlo propagation of velocity    *)
(* and the elastic moduli.                                                 *)
(*                                                                         *)
(* Numbers.  Times are integers (microseconds).  A normalised segment      *)
(* `signal / absmax` is kept as the exact fraction [num, den]: the         *)
(* selected amplitudes over their common divisor absmax; den = 0 is the    *)
(* result of 0.0/0.0, an array of NaN.  Statistics are kept in             *)
(* thousandths (truncated).  The propagation uses exact fractions          *)
(* [n, d] with d = 0 standing for a non-finite float (inf, -inf or nan).   *)
(***************************************************************************)
EXTENDS Integers, Sequences, FiniteSets, TLC

(***************************************************************************)
(* Bounds of the model.                                                    *)
(***************************************************************************)
\* event.xdata ranges over the half-sample grid 0, 0.5e6, ..., MaxClick * 0.5e6
MaxClick == 3
\* picks kept per signal before the model stops taking pick events
MaxPicks == 2

\* time_picks is applied to pick lists of up to MaxStatLen values 0..MaxPickVal
MaxStatLen == 3
MaxPickVal == 5
\* dtw is applied to sequences of 1..MaxLen values of DtwVals
MaxLen == 3

\* samples kept per Monte Carlo variable (mcerp keeps npts of them)
NPts == 2

\* self.times = secs * 1e6
Micro == 1000000

\* a mouse event: xdata is None (hasx = FALSE) when the pointer is outside
\* every axes
Event(x) == [hasx |-> TRUE, xdata |-> x]
OutsideEvent == [hasx |-> FALSE, xdata |-> 0]

\* the values event.xdata can take inside an axes
Clicks == {k * (Micro \div 2) : k \in 0..MaxClick}

\* the sample values of the sequences dtw is applied to
DtwVals == {-1, 0, 1}

\* the (secs, amplitude) columns of the two CSV files main() loads
Secs == <<0, 1, 2>>
TemplateData == <<0, 2, -1>>
QueryData == <<1, 0, -2>>

\* a fixed-point unit: thousandths
Milli == 10 * 100

(***************************************************************************)
(* Small helpers.                                                          *)
(***************************************************************************)
Abs(x) == IF x < 0 THEN -x ELSE x

Range(s) == {s[i] : i \in DOMAIN s}

SetMax(S) == CHOOSE x \in S : \A y \in S : y <= x

SetMin(S) == CHOOSE x \in S : \A y \in S : x <= y

RECURSIVE SeqSum(_)
SeqSum(s) == IF s = <<>> THEN 0 ELSE s[1] + SeqSum(Tail(s))

\* np.extract(pick, arr): the elements of arr at the positions where pick holds
RECURSIVE Extract(_, _)
Extract(pick, arr) ==
    IF arr = <<>> THEN <<>>
    ELSE (IF pick[1] THEN <<arr[1]>> ELSE <<>>) \o Extract(Tail(pick), Tail(arr))

\* largest r with r * r <= n, for n >= 0
RECURSIVE IsqrtFrom(_, _)
IsqrtFrom(n, r) == IF (r + 1) * (r + 1) > n THEN r ELSE IsqrtFrom(n, r + 1)

RECURSIVE Isqrt(_)
Isqrt(n) ==
    IF n < 4 THEN IsqrtFrom(n, 0)
    ELSE LET h == 2 * Isqrt(n \div 4) IN IF (h + 1) * (h + 1) <= n THEN h + 1 ELSE h

(***************************************************************************)
(* class Signal                                                            *)
(***************************************************************************)

\* Signal.move_line with a numeric event.xdata
move_line_ties_to_start(s, click) ==
    IF Abs(click - s.start) <= Abs(click - s.finish)
    THEN [s EXCEPT !.start = click]
    ELSE [s EXCEPT !.finish = click]

move_line_moves_farthest(s, click) ==
    IF Abs(click - s.start) > Abs(click - s.finish)
    THEN [s EXCEPT !.start = click]
    ELSE [s EXCEPT !.finish = click]

move_line(s, click) ==
    IF Abs(click - s.start) < Abs(click - s.finish)
    THEN [s EXCEPT !.start = click]
    ELSE [s EXCEPT !.finish = click]

\* Signal.get_picked_data: np.max of an empty selection raises ValueError;
\* an all-zero selection divides 0.0 by 0.0 and returns NaN without raising
get_picked_data(s) ==
    LET pick   == [i \in DOMAIN s.times |->
                      s.start <= s.times[i] /\ s.times[i] <= s.finish]
        times  == Extract(pick, s.times)
        signal == Extract(pick, s.signal)
    IN  IF signal = <<>>
        THEN [err |-> "ValueError", times |-> <<>>, signal |-> [num |-> <<>>, den |-> 0]]
        ELSE LET absmax == SetMax({Abs(a) : a \in Range(signal)})
             IN  [err |-> "none", times |-> times,
                  signal |-> [num |-> signal, den |-> absmax]]

\* Signal.__init__ up to the call of get_picked_data
SignalFields(secs, amp) ==
    LET times == [i \in DOMAIN secs |-> secs[i] * Micro]
        n     == Len(times)
    IN  [times |-> times, signal |-> amp,
         start |-> times[(n \div 2) + 1], finish |-> times[(n \div 2) + 2],
         pressed |-> FALSE, picks |-> <<>>,
         picked_times |-> <<>>, picked_signal |-> [num |-> <<>>, den |-> 0]]

\* Signal.__init__
SignalInit(secs, amp) ==
    LET s == SignalFields(secs, amp)
        r == get_picked_data(s)
    IN  [err |-> r.err,
         sig |-> IF r.err = "none"
                 THEN [s EXCEPT !.picked_times = r.times, !.picked_signal = r.signal]
                 ELSE s]

\* Signal.onpress (event.xdata is numeric: the press is inside the signal's axes)
onpress(s, click) == move_line([s EXCEPT !.pressed = TRUE, !.picks = <<>>], click)

\* Signal.onrelease: [sig, err]; an exception leaves the assignments made so far
onrelease(s, event) ==
    LET s1 == [s EXCEPT !.pressed = FALSE]
    IN  IF ~event.hasx
        THEN [sig |-> s1, err |-> "TypeError"]
        ELSE LET s2 == move_line(s1, event.xdata)
                 r  == get_picked_data(s2)
             IN  IF r.err # "none"
                 THEN [sig |-> s2, err |-> r.err]
                 ELSE [sig |-> [s2 EXCEPT !.picked_times = r.times,
                                          !.picked_signal = r.signal],
                       err |-> "none"]

\* np.mean and np.std (the population standard deviation) of a non-empty
\* array, in thousandths: std = sqrt(n * sum(x^2) - sum(x)^2) / n
np_mean(x) == (Milli * SeqSum(x)) \div Len(x)

np_std(x) ==
    LET n  == Len(x)
        sm == SeqSum(x)
        sq == SeqSum([i \in DOMAIN x |-> x[i] * x[i]])
    IN  Isqrt((Milli * Milli * (n * sq - sm * sm)) \div (n * n))

\* Signal.time_picks: (min, max, mean, population std) of the picks in
\* thousandths, or the fixed (-1, 1, 0, 0.25) when there is no pick.
time_picks_sample_std(picks) ==
    IF picks # <<>>
    THEN LET n  == Len(picks)
             sm == SeqSum(picks)
             sq == SeqSum([i \in DOMAIN picks |-> picks[i] * picks[i]])
         IN  [min  |-> Milli * SetMin(Range(picks)),
              max  |-> Milli * SetMax(Range(picks)),
              mean |-> (Milli * sm) \div n,
              std  |-> IF n = 1 THEN 0
                       ELSE Isqrt((Milli * Milli * (n * sq - sm * sm)) \div (n * (n - 1)))]
    ELSE [min |-> -Milli, max |-> Milli, mean |-> 0, std |-> Milli \div 4]

time_picks(picks) ==
    IF picks # <<>>
    THEN [min  |-> Milli * SetMin(Range(picks)),
          max  |-> Milli * SetMax(Range(picks)),
          mean |-> np_mean(picks),
          std  |-> np_std(picks)]
    ELSE [min |-> -Milli, max |-> Milli, mean |-> 0, std |-> Milli \div 4]

(***************************************************************************)
(* Analytic representation.  scipy.signal.hilbert keeps the input as the   *)
(* real part; for N <= 2 the imaginary part is 0 and for N = 3, 4 it is    *)
(* (x[n-1] - x[n+1]) / c cyclically, with c = sqrt(3) for N = 3 and c = 2  *)
(* for N = 4.  Segments of at most 4 samples are modelled.                 *)
(***************************************************************************)

\* c * c in the imaginary part (x[n-1] - x[n+1]) / c, for N = 3 and N = 4
HilbertC2(n) == IF n = 3 THEN 3 ELSE 4

\* the numerator x[n-1] - x[n+1] (cyclic) of the imaginary part; 0 for N <= 2
HilbertD(x, i) ==
    LET n == Len(x)
    IN  IF n <= 2 THEN 0
        ELSE x[IF i = 1 THEN n ELSE i - 1] - x[IF i = n THEN 1 ELSE i + 1]

\* Signal.hilbert_abs: |x + j H(x)| of the normalised segment, in thousandths
hilbert_abs(s) ==
    LET x   == s.picked_signal.num
        c2  == HilbertC2(Len(x))
        env == [i \in DOMAIN x |->
                  Isqrt((Milli * Milli * (c2 * x[i] * x[i]
                                          + HilbertD(x, i) * HilbertD(x, i))) \div c2)]
    IN  [num |-> SubSeq(env, 1, Len(x)),
         den |-> s.picked_signal.den * Milli]

\* ten thousand: the fixed-point scale of the arctangent
Myriad == 10 * Milli

\* atan(t) / pi in thousandths (to the nearest) for a tangent 0 <= t <= 1 in
\* ten-thousandths: atan(t) = 2 atan(u) with u = t / (1 + sqrt(1 + t^2)) <=
\* 0.4143, and atan(u) = u - u^3/3 + u^5/5 - u^7/7 + u^9/9 in ten-thousandths
\* of a radian; pi is 31416 ten-thousandths.  Within 0.6 thousandths of
\* atan(t) / pi for every t.
AtanOverPi(t) ==
    LET u   == (t * Myriad) \div (Myriad + Isqrt(Myriad * Myriad + t * t))
        u2  == (u * u) \div Myriad
        p3  == (u * u2) \div Myriad
        p5  == (p3 * u2) \div Myriad
        p7  == (p5 * u2) \div Myriad
        p9  == (p7 * u2) \div Myriad
        rad == 2 * (u - (p3 \div 3) + (p5 \div 5) - (p7 \div 7) + (p9 \div 9))
    IN  (Milli * rad + 15708) \div 31416

\* np.angle(re + j im) / pi in thousandths, in (-1000, 1000], for
\* re = x and im = d / sqrt(c2)
AngleOverPi(x, d, c2) ==
    IF d = 0 THEN (IF x < 0 THEN Milli ELSE 0)
    ELSE LET re2  == c2 * x * x
             im2  == d * d
             base == IF im2 <= re2
                     THEN AtanOverPi(Isqrt((Myriad * Myriad * im2) \div re2))
                     ELSE (Milli \div 2) - AtanOverPi(Isqrt((Myriad * Myriad * re2) \div im2))
             up   == IF x < 0 THEN Milli - base ELSE base
         IN  IF d < 0 THEN -up ELSE up

\* the values np.angle / pi can take where the analytic sample is 0 + 0j but
\* for rounding (x = 0, d = 0).  For N = 3 the FFT leaves a residue of the
\* order of 1e-17 whose direction depends on the order of its operations; for
\* N = 4 the FFT is exact and the signs of the two zeros decide.
ZeroAngles(n) ==
    IF n = 3 THEN {-Milli, -(Milli \div 2), 0, Milli \div 2, Milli}
    ELSE {-Milli, 0, Milli}

\* the phase of sample i over pi, in thousandths.  Where the imaginary part
\* is 0 but for rounding or for its sign (d = 0; every sample for N <= 2), a
\* negative sample has phase pi or -pi, as the sign of the zero the FFT of
\* the build leaves decides; for N >= 3 a zero sample has one of ZeroAngles.
AngleChoices(x, i) ==
    LET d == HilbertD(x, i)
    IN  IF d = 0 /\ x[i] < 0 THEN {-Milli, Milli}
        ELSE IF Len(x) >= 3 /\ d = 0 /\ x[i] = 0 THEN ZeroAngles(Len(x))
        ELSE {AngleOverPi(x[i], d, HilbertC2(Len(x)))}

\* the phase arrays of x that extend the first samples, done
RECURSIVE AngleArrays(_, _)
AngleArrays(x, done) ==
    IF Len(done) = Len(x) THEN {done}
    ELSE UNION {AngleArrays(x, Append(done, a)) : a \in AngleChoices(x, Len(done) + 1)}

\* Signal.hilbert_angle: the phase of the analytic signal over pi, in
\* thousandths; the set of the arrays rounding can give
hilbert_angle(s) ==
    {[num |-> a, den |-> IF s.picked_signal.den = 0 THEN 0 ELSE Milli] :
        a \in AngleArrays(s.picked_signal.num, <<>>)}

\* the bound, in thousandths, on the distance of an envelope or phase sample
\* from the float the code computes: 0 for N <= 2, where the FFT is exact
HilbertEps(s) == IF Len(s.picked_signal.num) <= 2 THEN 0 ELSE 1

(***************************************************************************)
(* dtw(x, y, ex, ey, same): dynamic time warping of two sequences of       *)
(* fractions x.num[i] / x.den and y.num[j] / y.den.  Costs are kept as     *)
(* numerators over the common denominator x.den * y.den.  The numerators   *)
(* of x and y are within ex and ey of the floats of the code, so a cost is *)
(* an interval [lo, hi] that holds the cost the code computes; same says   *)
(* that x and y are the same array, whose samples i of x and i of y are    *)
(* the same float.  With ex = ey = 0 every interval is a point.            *)
(***************************************************************************)
Min3(a, b, c) == IF a <= b /\ a <= c THEN a ELSE IF b <= c THEN b ELSE c

\* d(i,j) = |x[i] - y[j]|
LocalCost(x, y, i, j, ex, ey, same) ==
    LET m == Abs(x.num[i] * y.den - y.num[j] * x.den)
        u == IF same /\ i = j THEN 0 ELSE ex * y.den + ey * x.den
    IN  [lo |-> IF m > u THEN m - u ELSE 0, hi |-> m + u]

\* row i of the cumulative-cost matrix, built left to right from row i-1
RECURSIVE CostRow(_, _, _, _, _, _, _, _)
CostRow(x, y, i, prev, cur, ex, ey, same) ==
    IF Len(cur) = Len(y.num) THEN cur
    ELSE LET j    == Len(cur) + 1
             d    == LocalCost(x, y, i, j, ex, ey, same)
             best == IF i = 1 THEN (IF j = 1 THEN [lo |-> 0, hi |-> 0] ELSE cur[j - 1])
                     ELSE IF j = 1 THEN prev[1]
                     ELSE [lo |-> Min3(prev[j - 1].lo, prev[j].lo, cur[j - 1].lo),
                           hi |-> Min3(prev[j - 1].hi, prev[j].hi, cur[j - 1].hi)]
         IN  CostRow(x, y, i, prev,
                     Append(cur, [lo |-> d.lo + best.lo, hi |-> d.hi + best.hi]),
                     ex, ey, same)

\* the cumulative-cost matrix as a sequence of rows
RECURSIVE CostMatrix(_, _, _, _, _, _)
CostMatrix(x, y, rows, ex, ey, same) ==
    IF Len(rows) = Len(x.num) THEN rows
    ELSE LET i    == Len(rows) + 1
             prev == IF i = 1 THEN <<>> ELSE rows[i - 1]
         IN  CostMatrix(x, y, Append(rows, CostRow(x, y, i, prev, <<>>, ex, ey, same)),
                        ex, ey, same)

\* neighbour a can be the one chosen before neighbour b: it can be cheaper,
\* or as cheap when it is preferred (first)
Beats(a, b, first) == IF first THEN a.lo <= b.hi ELSE a.lo < b.hi

\* the predecessors of (i, j) on the optimal path: the cheapest of the
\* diagonal, vertical and horizontal neighbours, preferred in that order; one
\* cell when the costs are points
Predecessor_horizontal_first(c, i, j) ==
    IF j > 1 THEN {<<i, j - 1>>} ELSE {<<i - 1, j>>}

Predecessor(c, i, j) ==
    IF i = 1 THEN {<<1, j - 1>>}
    ELSE IF j = 1 THEN {<<i - 1, 1>>}
    ELSE LET dg == c[i - 1][j - 1]
             vt == c[i - 1][j]
             hz == c[i][j - 1]
         IN  {p \in {<<i - 1, j - 1>>} : Beats(dg, vt, TRUE) /\ Beats(dg, hz, TRUE)}
             \cup {p \in {<<i - 1, j>>} : Beats(vt, dg, FALSE) /\ Beats(vt, hz, TRUE)}
             \cup {p \in {<<i, j - 1>>} : Beats(hz, dg, FALSE) /\ Beats(hz, vt, FALSE)}

\* a backtracking that stops at the first row or column it meets instead of
\* walking along it to (1, 1)
RECURSIVE Backtrack_stops_at_border(_, _, _, _, _)
Backtrack_stops_at_border(c, i, j, p1, p2) ==
    IF i = 1 \/ j = 1 THEN {[index1 |-> <<i>> \o p1, index2 |-> <<j>> \o p2]}
    ELSE UNION {Backtrack_stops_at_border(c, p[1], p[2], <<i>> \o p1, <<j>> \o p2) :
                    p \in Predecessor(c, i, j)}

\* backtracking from (i, j) to (1, 1); p1, p2 hold the path found so far
RECURSIVE Backtrack(_, _, _, _, _)
Backtrack(c, i, j, p1, p2) ==
    IF i = 1 /\ j = 1 THEN {[index1 |-> <<1>> \o p1, index2 |-> <<1>> \o p2]}
    ELSE UNION {Backtrack(c, p[1], p[2], <<i>> \o p1, <<j>> \o p2) :
                    p \in Predecessor(c, i, j)}

\* dtw(x, y): the accumulated cost and the paths (index1, index2), indices
\* 1-based, that the costs within the intervals can give
dtw(x, y, ex, ey, same) ==
    LET c == CostMatrix(x, y, <<>>, ex, ey, same)
        n == Len(x.num)
        m == Len(y.num)
    IN  [dist  |-> [n |-> c[n][m].lo, d |-> x.den * y.den],
         paths |-> Backtrack(c, n, m, <<>>, <<>>)]

(***************************************************************************)
(* Monte Carlo propagation.  A float is the fraction [n, d]: finite with   *)
(* d > 0, in lowest terms; with d = 0 it is inf (n = 1), -inf (n = -1) or  *)
(* nan (n = 0).  The arithmetic is that of numpy float64 arrays: a         *)
(* division by 0.0 gives inf, -inf or nan and no exception.  An uncertain  *)
(* value is [kind, pts]: a plain number ("det", one point) or an mcerp     *)
(* variable ("mc", NPts sample points, combined point by point).           *)
(***************************************************************************)
RECURSIVE GCD(_, _)
GCD(a, b) == IF b = 0 THEN a ELSE GCD(b, a % b)

NaN == [n |-> 0, d |-> 0]

\* inf for sgn > 0, -inf for sgn < 0
Inf(sgn) == [n |-> IF sgn > 0 THEN 1 ELSE -1, d |-> 0]

IsFinite(f) == f.d # 0

IsNaN(f) == f.d = 0 /\ f.n = 0

IsInf(f) == f.d = 0 /\ f.n # 0

Frac(n, d) ==
    IF d = 0 THEN (IF n = 0 THEN NaN ELSE Inf(n))
    ELSE LET g == GCD(Abs(n), Abs(d))
         IN  IF d < 0 THEN [n |-> (-n) \div g, d |-> (-d) \div g]
             ELSE [n |-> n \div g, d |-> d \div g]

\* nan * x = nan, inf * 0 = nan, inf * x = inf with the sign of the product
FMul(a, b) ==
    IF IsNaN(a) \/ IsNaN(b) THEN NaN
    ELSE IF IsInf(a) \/ IsInf(b)
         THEN (IF a.n = 0 \/ b.n = 0 THEN NaN ELSE Inf(a.n * b.n))
    ELSE LET g1 == GCD(Abs(a.n), b.d)
             g2 == GCD(Abs(b.n), a.d)
         IN  Frac((a.n \div g1) * (b.n \div g2), (a.d \div g2) * (b.d \div g1))

\* nan / x = x / nan = inf / inf = 0 / 0 = nan, x / inf = 0,
\* inf / x and x / 0 = inf with the sign of the dividend (and of x)
FDiv(a, b) ==
    IF IsNaN(a) \/ IsNaN(b) THEN NaN
    ELSE IF IsInf(a) THEN (IF IsInf(b) THEN NaN
                           ELSE Inf(IF b.n < 0 THEN -a.n ELSE a.n))
    ELSE IF IsInf(b) THEN Frac(0, 1)
    ELSE IF b.n = 0 THEN (IF a.n = 0 THEN NaN ELSE Inf(a.n))
    ELSE FMul(a, IF b.n < 0 THEN [n |-> -b.d, d |-> -b.n] ELSE [n |-> b.d, d |-> b.n])

\* nan + x = nan, inf + -inf = nan, inf + x = inf
FAdd(a, b) ==
    IF IsNaN(a) \/ IsNaN(b) THEN NaN
    ELSE IF IsInf(a) THEN (IF IsInf(b) /\ b.n # a.n THEN NaN ELSE a)
    ELSE IF IsInf(b) THEN b
    ELSE LET g == GCD(a.d, b.d)
         IN  Frac(a.n * (b.d \div g) + b.n * (a.d \div g), (a.d \div g) * b.d)

FSub(a, b) == FAdd(a, [n |-> -b.n, d |-> b.d])

Det(f) == [kind |-> "det", pts |-> <<f>>]

Const(k) == Det(Frac(k, 1))

\* point i of an uncertain value: a plain number is the same at every point
Pt(a, i) == IF a.kind = "det" THEN a.pts[1] ELSE a.pts[i]

BothDet(a, b) == a.kind = "det" /\ b.kind = "det"

\* the arithmetic of mcerp variables and plain numbers, point by point
UMul(a, b) ==
    IF BothDet(a, b) THEN Det(FMul(a.pts[1], b.pts[1]))
    ELSE [kind |-> "mc", pts |-> [i \in 1..NPts |-> FMul(Pt(a, i), Pt(b, i))]]

UDiv(a, b) ==
    IF BothDet(a, b) THEN Det(FDiv(a.pts[1], b.pts[1]))
    ELSE [kind |-> "mc", pts |-> [i \in 1..NPts |-> FDiv(Pt(a, i), Pt(b, i))]]

UAdd(a, b) ==
    IF BothDet(a, b) THEN Det(FAdd(a.pts[1], b.pts[1]))
    ELSE [kind |-> "mc", pts |-> [i \in 1..NPts |-> FAdd(Pt(a, i), Pt(b, i))]]

USub(a, b) ==
    IF BothDet(a, b) THEN Det(FSub(a.pts[1], b.pts[1]))
    ELSE [kind |-> "mc", pts |-> [i \in 1..NPts |-> FSub(Pt(a, i), Pt(b, i))]]

\* the sample points a draw can give a Normal(mu, sigma): mu - sigma or
\* mu + sigma at each of the NPts positions
Draws == [1..NPts -> {-1, 1}]

\* mc.Normal(mu, sigma), mu and sigma in thousandths: mcerp asserts sigma > 0
Normal(mu, sigma, draw) ==
    IF sigma > 0
    THEN [err |-> "none",
          val |-> [kind |-> "mc",
                   pts  |-> [i \in 1..NPts |-> Frac(mu + draw[i] * sigma, Milli)]]]
    ELSE [err |-> "AssertionError", val |-> Det(NaN)]

\* Signal.mc_velocity: (distance / time) * 1e4
mc_velocity(length, picks, draw) ==
    LET tp   == time_picks(picks)
        time == IF tp.std > 0 THEN Normal(tp.mean, tp.std, draw).val
                ELSE Det(Frac(tp.mean, Milli))
    IN  UMul(UDiv(length, time), Const(10000))

\* Signal.bulk_modulus: (1e-6 * rho * v**2) - ((4/3) * mu); the exact product
\* is taken as ((1e-6 * rho) * v) * v
bulk_modulus(s, picks, draw) ==
    LET v == mc_velocity(s.length, picks, draw)
    IN  USub(UMul(UMul(UMul(Det(Frac(1, 1000000)), s.density), v), v),
             UMul(Det(Frac(4, 3)), s.shear))

\* Signal.young_modulus: (3*k - 2*mu) / (2*(3*k + mu))
young_modulus(s, picks, draw) ==
    LET k == bulk_modulus(s, picks, draw)
    IN  UDiv(USub(UMul(Const(3), k), UMul(Const(2), s.shear)),
             UMul(Const(2), UAdd(UMul(Const(3), k), s.shear)))

\* Signal.poissons_ratio: (9*k*mu) / (3*k + mu)
poissons_ratio(s, picks, draw) ==
    LET k == bulk_modulus(s, picks, draw)
    IN  UDiv(UMul(UMul(Const(9), k), s.shear), UAdd(UMul(Const(3), k), s.shear))

(***************************************************************************)
(* class Poropyck: the session of one template and one query signal.       *)
(*   indices  the six index arrays of run_dtw; <<>> stands for None        *)
(*   drawn    the summary axes hold the pickable path line                  *)
(*   err      the exception the last handler ended with, or "none"         *)
(***************************************************************************)
VARIABLES template, query, indices, drawn, err,
          statPicks, statOut, statDone,
          dtwQuery, dtwTemplate, dtwOut, dtwDist, dtwDone,
          mcMeta, mcPicks, mcSignal, mcOut, mcPc

uiVars == <<template, query, indices, drawn, err>>

statVars == <<statPicks, statOut, statDone>>

dtwVars == <<dtwQuery, dtwTemplate, dtwOut, dtwDist, dtwDone>>

mcVars == <<mcMeta, mcPicks, mcSignal, mcOut, mcPc>>

vars == <<uiVars, statVars, dtwVars, mcVars>>

\* all sequences of length lo..hi over S
SeqsOf(S, lo, hi) == UNION {[1..n -> S] : n \in lo..hi}

NoIndices ==
    [indices1 |-> <<>>, indices2 |-> <<>>, indices1h |-> <<>>, indices2h |-> <<>>,
     indices1a |-> <<>>, indices2a |-> <<>>]

\* Poropyck.run_dtw: the three alignments, query first, template second; the
\* set of the index arrays the roundings of the envelope and the phase can
\* give.  The amplitudes of the normalised segments are exact.
run_dtw(q, t) ==
    LET same == q.picked_signal = t.picked_signal
        eq   == HilbertEps(q)
        et   == HilbertEps(t)
        raw  == dtw(q.picked_signal, t.picked_signal, 0, 0, same)
        env  == dtw(hilbert_abs(q), hilbert_abs(t), eq, et, same)
        ang  == UNION {dtw(a, b, eq, et, same).paths :
                          <<a, b>> \in {p \in hilbert_angle(q) \X hilbert_angle(t) :
                                            same => p[1] = p[2]}}
    IN  {[indices1 |-> r.index1, indices2 |-> r.index2,
          indices1h |-> h.index1, indices2h |-> h.index2,
          indices1a |-> a.index1, indices2a |-> a.index2] :
            r \in raw.paths, h \in env.paths, a \in ang}

\* Poropyck.__init__ with the two Signal objects main() builds
UiInit ==
    /\ SignalInit(Secs, TemplateData).err = "none"
    /\ SignalInit(Secs, QueryData).err = "none"
    /\ template = SignalInit(Secs, TemplateData).sig
    /\ query = SignalInit(Secs, QueryData).sig
    /\ indices = NoIndices
    /\ drawn = FALSE
    /\ err = "none"

\* Poropyck.onpress with event.inaxes the template axes
PressTemplate(x) ==
    /\ template' = onpress(template, x)
    /\ drawn' = FALSE
    /\ err' = "none"
    /\ UNCHANGED <<query, indices>>
    /\ UNCHANGED <<statVars, dtwVars, mcVars>>

\* Poropyck.onpress with event.inaxes the query axes
PressQuery(x) ==
    /\ query' = onpress(query, x)
    /\ drawn' = FALSE
    /\ err' = "none"
    /\ UNCHANGED <<template, indices>>
    /\ UNCHANGED <<statVars, dtwVars, mcVars>>

\* Poropyck.onrelease: the pressed signals are released in turn, template
\* first, and run_dtw follows; an exception ends the handler where it is raised.
\* With a NaN segment plot_summary asks for NaN axis limits after run_dtw has
\* stored the indices: matplotlib either accepts them or raises ValueError
\* before the path line is drawn, depending on its version.
Release(event) ==
    /\ template.pressed \/ query.pressed
    /\ LET rt == IF template.pressed THEN onrelease(template, event)
                 ELSE [sig |-> template, err |-> "none"]
           rq == IF rt.err = "none" /\ query.pressed THEN onrelease(query, event)
                 ELSE [sig |-> query, err |-> "none"]
           e  == IF rt.err # "none" THEN rt.err ELSE rq.err
           nan == rt.sig.picked_signal.den = 0 \/ rq.sig.picked_signal.den = 0
       IN  /\ template' = rt.sig
           /\ query' = rq.sig
           /\ indices' \in (IF e = "none" THEN run_dtw(rq.sig, rt.sig) ELSE {indices})
           /\ \E pe \in (IF e = "none" /\ nan THEN {"none", "ValueError"} ELSE {"none"}) :
                /\ err' = IF e # "none" THEN e ELSE pe
                /\ drawn' = IF e = "none" /\ pe = "none" THEN TRUE ELSE drawn
    /\ UNCHANGED <<statVars, dtwVars, mcVars>>

\* Poropyck.onmotion with event.inaxes the template or the query axes
Motion_moves_both(x) ==
    /\ template.pressed \/ query.pressed
    /\ template' = move_line(template, x)
    /\ query' = move_line(query, x)
    /\ err' = "none"
    /\ UNCHANGED <<indices, drawn>>
    /\ UNCHANGED <<statVars, dtwVars, mcVars>>

Motion(x) ==
    /\ template.pressed \/ query.pressed
    /\ template' = IF template.pressed THEN move_line(template, x) ELSE template
    /\ query' = IF query.pressed THEN move_line(query, x) ELSE query
    /\ err' = "none"
    /\ UNCHANGED <<indices, drawn>>
    /\ UNCHANGED <<statVars, dtwVars, mcVars>>

\* Poropyck.plot_monte_carlo after a pick, for the template and then the
\* query: plot_clicks passes normed=True to Axes.hist, which matplotlib from
\* 3.1 on rejects (AttributeError); where it is accepted, plot_velocity plots
\* length / mean(picks), which is inf at every sample for a mean of 0, and
\* the kernel density estimate of mcerp raises ValueError.
PlotMonteCarlo(t, q) ==
    {"AttributeError"} \cup
        (IF SeqSum(t.picks) = 0 \/ SeqSum(q.picks) = 0 THEN {"ValueError"}
         ELSE {"none"})

\* Poropyck.onpick: the path point k nearest to the mouse gives the template
\* its time (ypoint) and the query its time (xpoint); the plots follow the
\* appends, so an exception of theirs leaves the picks appended
Pick(k) ==
    /\ drawn
    /\ k \in DOMAIN indices.indices1
    /\ Len(template.picks) < MaxPicks
    /\ Len(query.picks) < MaxPicks
    /\ template' = [template EXCEPT
           !.picks = Append(@, template.picked_times[indices.indices2[k]])]
    /\ query' = [query EXCEPT
           !.picks = Append(@, query.picked_times[indices.indices1[k]])]
    /\ err' \in PlotMonteCarlo(template', query')
    /\ UNCHANGED <<indices, drawn>>
    /\ UNCHANGED <<statVars, dtwVars, mcVars>>

UiNext ==
    \/ \E x \in Clicks : PressTemplate(x)
    \/ \E x \in Clicks : PressQuery(x)
    \/ \E x \in Clicks : Release(Event(x))
    \/ Release(OutsideEvent)
    \/ \E x \in Clicks : Motion(x)
    \/ \E k \in 1..(2 * Len(Secs)) : Pick(k)

(***************************************************************************)
(* time_picks applied to any list of picks.                                *)
(***************************************************************************)
StatIdle ==
    /\ statPicks = <<>>
    /\ statOut = time_picks(<<>>)
    /\ statDone = FALSE

StatInit ==
    /\ statPicks \in SeqsOf(0..MaxPickVal, 0, MaxStatLen)
    /\ statOut = time_picks(<<>>)
    /\ statDone = FALSE

\* min_, max_, mean, std = self.time_picks()
StatCall ==
    /\ ~statDone
    /\ statOut' = time_picks(statPicks)
    /\ statDone' = TRUE
    /\ UNCHANGED statPicks
    /\ UNCHANGED <<uiVars, dtwVars, mcVars>>

(***************************************************************************)
(* run_dtw applied to any two normalised segments.                         *)
(***************************************************************************)
Segment(a) == [picked_signal |-> [num |-> a, den |-> 1]]

DtwIdle ==
    /\ dtwQuery = Segment(<<0>>)
    /\ dtwTemplate = Segment(<<0>>)
    /\ dtwOut = NoIndices
    /\ dtwDist = [n |-> 0, d |-> 1]
    /\ dtwDone = FALSE

DtwInit ==
    /\ \E a \in SeqsOf(DtwVals, 1, MaxLen) : dtwQuery = Segment(a)
    /\ \E b \in SeqsOf(DtwVals, 1, MaxLen) : dtwTemplate = Segment(b)
    /\ dtwOut = NoIndices
    /\ dtwDist = [n |-> 0, d |-> 1]
    /\ dtwDone = FALSE

\* self.run_dtw(), and the accumulated cost dtw returns with the raw paths
DtwCall ==
    /\ ~dtwDone
    /\ dtwOut' \in run_dtw(dtwQuery, dtwTemplate)
    /\ dtwDist' = dtw(dtwQuery.picked_signal, dtwTemplate.picked_signal, 0, 0,
                       dtwQuery = dtwTemplate).dist
    /\ dtwDone' = TRUE
    /\ UNCHANGED <<dtwQuery, dtwTemplate>>
    /\ UNCHANGED <<uiVars, statVars, mcVars>>

(***************************************************************************)
(* main() and the propagation of the two Signals.                          *)
(*   mcMeta    the metadata JSON: raw lengths, and the density (mean, std) *)
(*             and shear (mu, d_mu) of the dry and of the saturated sample *)
(*   mcPicks   the picks of the signal a propagation call is made on       *)
(*   mcSignal  the length, density and shear main() hands to the template  *)
(*             (dry) and to the query (sat) Signal                         *)
(*   mcOut     the value the last propagation call returned, and of which  *)
(*             signal                                                      *)
(*   mcPc      "load", then "ready" or "failed" (an exception in main),    *)
(*             and "done" after a propagation call                         *)
(* The propagation calls are functions of the signal and its picks alone:  *)
(* one call is followed from each session main() has set up.               *)
(***************************************************************************)
MetaData ==
    {[raw     |-> r,
      density |-> [dry |-> [mean |-> 3, std |-> ds1], sat |-> [mean |-> 4, std |-> ds2]],
      shear   |-> [dry |-> [mu |-> 3, d_mu |-> dm1], sat |-> [mu |-> 3, d_mu |-> dm2]]] :
        r \in {<<2, 2>>, <<1, 3>>},
        ds1 \in {0, 1}, ds2 \in {0, 1}, dm1 \in {0, 1}, dm2 \in {0, 1}}

NoSignal == [length |-> Det(NaN), density |-> Det(NaN), shear |-> Det(NaN)]

NoSignals == [template |-> NoSignal, query |-> NoSignal]

NoOut == [what |-> "none", of |-> "none", val |-> Det(NaN)]

McIdle ==
    /\ mcMeta = [raw     |-> <<1, 3>>,
                 density |-> [dry |-> [mean |-> 3, std |-> 1],
                              sat |-> [mean |-> 4, std |-> 1]],
                 shear   |-> [dry |-> [mu |-> 3, d_mu |-> 1],
                              sat |-> [mu |-> 3, d_mu |-> 1]]]
    /\ mcPicks = <<>>
    /\ mcSignal = NoSignals
    /\ mcOut = NoOut
    /\ mcPc = "load"

McInit ==
    /\ mcMeta \in MetaData
    /\ mcPicks \in SeqsOf({0, 2}, 0, 2)
    /\ mcSignal = NoSignals
    /\ mcOut = NoOut
    /\ mcPc = "load"

\* main(): mc.Normal builds mc_length, then the density and the shear of the
\* dry sample for the template Signal, then those of the saturated sample for
\* the query Signal; the first failing call ends main()
McMain(d1, d2, d3, d4, d5) ==
    /\ mcPc = "load"
    /\ LET length == Normal(np_mean(mcMeta.raw), np_std(mcMeta.raw), d1)
           dryRho == Normal(Milli * mcMeta.density.dry.mean,
                            Milli * mcMeta.density.dry.std, d2)
           dryMu  == Normal(Milli * mcMeta.shear.dry.mu,
                            Milli * mcMeta.shear.dry.d_mu, d3)
           satRho == Normal(Milli * mcMeta.density.sat.mean,
                            Milli * mcMeta.density.sat.std, d4)
           satMu  == Normal(Milli * mcMeta.shear.sat.mu,
                            Milli * mcMeta.shear.sat.d_mu, d5)
       IN  IF /\ length.err = "none"
              /\ dryRho.err = "none" /\ dryMu.err = "none"
              /\ satRho.err = "none" /\ satMu.err = "none"
           THEN /\ mcSignal' = [template |-> [length  |-> length.val,
                                              density |-> dryRho.val,
                                              shear   |-> dryMu.val],
                                query    |-> [length  |-> length.val,
                                              density |-> satRho.val,
                                              shear   |-> satMu.val]]
                /\ mcPc' = "ready"
           ELSE /\ mcSignal' = mcSignal
                /\ mcPc' = "failed"
    /\ UNCHANGED <<mcMeta, mcPicks, mcOut>>
    /\ UNCHANGED <<uiVars, statVars, dtwVars>>

\* velocity = self.mc_velocity(), self the template or the query
McVelocity(sig, draw) ==
    /\ mcPc = "ready"
    /\ mcOut' = [what |-> "velocity", of |-> sig,
                 val |-> mc_velocity(mcSignal[sig].length, mcPicks, draw)]
    /\ mcPc' = "done"
    /\ UNCHANGED <<mcMeta, mcPicks, mcSignal>>
    /\ UNCHANGED <<uiVars, statVars, dtwVars>>

\* bulk = self.bulk_modulus()
McBulk(sig, draw) ==
    /\ mcPc = "ready"
    /\ mcOut' = [what |-> "bulk", of |-> sig,
                 val |-> bulk_modulus(mcSignal[sig], mcPicks, draw)]
    /\ mcPc' = "done"
    /\ UNCHANGED <<mcMeta, mcPicks, mcSignal>>
    /\ UNCHANGED <<uiVars, statVars, dtwVars>>

\* youngs = self.young_modulus()
McYoung(sig, draw) ==
    /\ mcPc = "ready"
    /\ mcOut' = [what |-> "young", of |-> sig,
                 val |-> young_modulus(mcSignal[sig], mcPicks, draw)]
    /\ mcPc' = "done"
    /\ UNCHANGED <<mcMeta, mcPicks, mcSignal>>
    /\ UNCHANGED <<uiVars, statVars, dtwVars>>

\* poisson = self.poissons_ratio()
McPoisson(sig, draw) ==
    /\ mcPc = "ready"
    /\ mcOut' = [what |-> "poisson", of |-> sig,
                 val |-> poissons_ratio(mcSignal[sig], mcPicks, draw)]
    /\ mcPc' = "done"
    /\ UNCHANGED <<mcMeta, mcPicks, mcSignal>>
    /\ UNCHANGED <<uiVars, statVars, dtwVars>>

McNext ==
    \/ \E d1 \in Draws, d2 \in Draws, d3 \in Draws, d4 \in Draws, d5 \in Draws :
            McMain(d1, d2, d3, d4, d5)
    \/ \E sig \in {"template", "query"}, draw \in Draws : McVelocity(sig, draw)
    \/ \E sig \in {"template", "query"}, draw \in Draws : McBulk(sig, draw)
    \/ \E sig \in {"template", "query"}, draw \in Draws : McYoung(sig, draw)
    \/ \E sig \in {"template", "query"}, draw \in Draws : McPoisson(sig, draw)

(***************************************************************************)
(* Properties.                                                             *)
(***************************************************************************)
Signals == {template, query}

\* the samples get_picked_data selects for the window of s
Selected(s) == {i \in DOMAIN s.times : s.start <= s.times[i] /\ s.times[i] <= s.finish}

EmptyWindow(s) == Selected(s) = {}

AllZeroWindow(s) == Selected(s) # {} /\ \A i \in Selected(s) : s.signal[i] = 0

IsPrefix(a, b) == Len(a) <= Len(b) /\ SubSeq(b, 1, Len(a)) = a

\* C1: for every window (s, f) the session reaches and every adjust value v,
\* move_line gives (v, f) when |v - s| < |v - f| and (s, v) otherwise, ties
\* included; the other bound keeps its value.
C1_MoveLineNearest ==
    \A s \in Signals : \A v \in Clicks :
        LET r == move_line(s, v)
        IN  /\ Abs(v - s.start) < Abs(v - s.finish)
                => r.start = v /\ r.finish = s.finish
            /\ Abs(v - s.start) >= Abs(v - s.finish)
                => r.start = s.start /\ r.finish = v

\* a drag of the template has resolved a tie: from the initial window
\* (1e6, 2e6) the value 1.5e6, equally far from both bounds, became finish
C1_Witness ==
    /\ template.pressed
    /\ template.start = Micro
    /\ template.finish = Micro + (Micro \div 2)

\* C2: the picks of a signal are append-only: in every step the picks of each
\* signal before the step are a prefix of its picks after the step.
C2_PicksAppendOnly ==
    [][/\ IsPrefix(template.picks, template'.picks)
       /\ IsPrefix(query.picks, query'.picks)]_vars

\* C3: time_picks returns (min, max, mean, population std) of the picks, in
\* thousandths, and (-1, 1, 0, 0.25) for no pick; [5] gives (5, 5, 5, 0) and
\* [1, 3] gives (1, 3, 2, 1).
C3_TimePicks ==
    statDone =>
        LET p  == statPicks
            n  == Len(p)
            sm == SeqSum(p)
            d  == n * SeqSum([i \in DOMAIN p |-> p[i] * p[i]]) - sm * sm
            o  == statOut
        IN  /\ p = <<>> => o = [min |-> -1000, max |-> 1000, mean |-> 0, std |-> 250]
            /\ p = <<5>> => o = [min |-> 5000, max |-> 5000, mean |-> 5000, std |-> 0]
            /\ p = <<1, 3>> => o = [min |-> 1000, max |-> 3000, mean |-> 2000, std |-> 1000]
            /\ p # <<>> =>
                /\ \E i \in DOMAIN p : o.min = 1000 * p[i]
                /\ \A i \in DOMAIN p : o.min <= 1000 * p[i]
                /\ \E i \in DOMAIN p : o.max = 1000 * p[i]
                /\ \A i \in DOMAIN p : o.max >= 1000 * p[i]
                /\ o.mean * n <= 1000 * sm /\ 1000 * sm < (o.mean + 1) * n
                /\ o.std >= 0
                /\ o.std * o.std * n * n <= 1000000 * d
                /\ 1000000 * d < (o.std + 1) * (o.std + 1) * n * n

\* time_picks has been called on the picks [1, 3]
C3_Witness == statDone /\ statPicks = <<1, 3>>

\* all the fields of a signal an event can change
SameSignal(a, b) ==
    /\ a.start = b.start /\ a.finish = b.finish /\ a.pressed = b.pressed
    /\ a.picks = b.picks
    /\ a.picked_times = b.picked_times /\ a.picked_signal = b.picked_signal

AnyRelease == (\E x \in Clicks : Release(Event(x))) \/ Release(OutsideEvent)

\* a press, motion or release step: only a pick event makes the picks grow
MouseStep == Len(template'.picks) <= Len(template.picks)

\* C4: a press in one signal's axes, and a motion or release while only that
\* signal is pressed, leave the other signal's bounds, pressed flag, picks and
\* stored segment as they were: a press, motion or release step changes a
\* signal only if that signal is pressed before or after the step.
C4_SignalsIndependent ==
    [][MouseStep =>
        /\ ~query.pressed /\ ~query'.pressed => SameSignal(query, query')
        /\ ~template.pressed /\ ~template'.pressed
            => SameSignal(template, template')]_vars

\* the template has been pressed, dragged and released onto a new window and
\* segment while the query is still as it was built
C4_Witness ==
    /\ ~template.pressed /\ ~query.pressed /\ drawn
    /\ template.start = 0 /\ template.finish = Micro
    /\ template.picked_times = <<0, Micro>>
    /\ SameSignal(query, SignalInit(Secs, QueryData).sig)

\* C5 as claimed: get_picked_data ends in an error for every window that
\* selects no sample and for every window whose selected amplitudes are all 0.
C5_DegenerateWindowFails ==
    \A s \in Signals :
        EmptyWindow(s) \/ AllZeroWindow(s) => get_picked_data(s).err # "none"

\* a release that leaves signal s' on a degenerate window
ReleasedDegenerate(s, t) == s.pressed /\ (EmptyWindow(t) \/ AllZeroWindow(t))

SameSegment(a, b) ==
    a.picked_times = b.picked_times /\ a.picked_signal = b.picked_signal

\* C6 as claimed: a release that leaves a pressed signal on a degenerate
\* window keeps that signal's stored segment and the six index arrays.
C6_DegenerateKeepsPrevious ==
    [][AnyRelease =>
        /\ ReleasedDegenerate(template, template')
            => SameSegment(template, template') /\ indices' = indices
        /\ ReleasedDegenerate(query, query')
            => SameSegment(query, query') /\ indices' = indices]_vars

\* one alignment: two index arrays over sequences of lengths n and m
IsWarpingPath(i1, i2, n, m) ==
    /\ Len(i1) = Len(i2)
    /\ Len(i1) >= 1
    /\ i1[1] = 1 /\ i2[1] = 1
    /\ i1[Len(i1)] = n /\ i2[Len(i2)] = m
    /\ \A k \in 1..(Len(i1) - 1) : i1[k] <= i1[k + 1] /\ i2[k] <= i2[k + 1]

\* C7: for any two non-empty sequences, each of the three alignments of
\* run_dtw (raw, envelope, phase) is a pair of index arrays of equal length,
\* non-decreasing in both, from (1, 1) to (|query|, |template|).
C7_WarpingPaths ==
    dtwDone =>
        LET n == Len(dtwQuery.picked_signal.num)
            m == Len(dtwTemplate.picked_signal.num)
        IN  /\ IsWarpingPath(dtwOut.indices1, dtwOut.indices2, n, m)
            /\ IsWarpingPath(dtwOut.indices1h, dtwOut.indices2h, n, m)
            /\ IsWarpingPath(dtwOut.indices1a, dtwOut.indices2a, n, m)

\* run_dtw has aligned a query of 3 samples with a template of 2, and the raw
\* path repeats a template index
C7_Witness ==
    /\ dtwDone
    /\ Len(dtwQuery.picked_signal.num) = 3
    /\ Len(dtwTemplate.picked_signal.num) = 2
    /\ Len(dtwOut.indices1) = 3

Diagonal(n) == [k \in 1..n |-> k]

\* C8: for identical sequences of length n the path is (1,1), (2,2), ...,
\* (n,n) and the accumulated cost is 0.
C8_IdenticalDiagonal ==
    dtwDone /\ dtwQuery = dtwTemplate =>
        LET n == Len(dtwQuery.picked_signal.num)
        IN  /\ dtwOut.indices1 = Diagonal(n)
            /\ dtwOut.indices2 = Diagonal(n)
            /\ dtwDist.n = 0 /\ dtwDist.d # 0

\* run_dtw has aligned the sequence (1, 1, 0), which holds a repeated value,
\* with itself
C8_Witness ==
    /\ dtwDone
    /\ dtwQuery = dtwTemplate
    /\ dtwQuery.picked_signal.num = <<1, 1, 0>>

\* every input of the propagation has standard deviation 0: the raw lengths,
\* the densities, the shear moduli and the picks
AllStdZero ==
    /\ np_std(mcMeta.raw) = 0
    /\ mcMeta.density.dry.std = 0 /\ mcMeta.density.sat.std = 0
    /\ mcMeta.shear.dry.d_mu = 0 /\ mcMeta.shear.sat.d_mu = 0
    /\ mcPicks # <<>> /\ np_std(mcPicks) = 0

\* the formulas of the propagation evaluated once at the means of the dry
\* (template) or the saturated (query) sample
ClosedForm(sig) ==
    LET of  == IF sig = "query" THEN "sat" ELSE "dry"
        L   == Frac(np_mean(mcMeta.raw), Milli)
        T   == Frac(np_mean(mcPicks), Milli)
        rho == Frac(mcMeta.density[of].mean, 1)
        mu  == Frac(mcMeta.shear[of].mu, 1)
        v   == FMul(FDiv(L, T), Frac(10000, 1))
        k   == FSub(FMul(FMul(FMul(Frac(1, 1000000), rho), v), v), FMul(Frac(4, 3), mu))
        d   == FAdd(FMul(Frac(3, 1), k), mu)
    IN  [velocity |-> v,
         bulk     |-> k,
         young    |-> FDiv(FSub(FMul(Frac(3, 1), k), FMul(Frac(2, 1), mu)),
                           FMul(Frac(2, 1), d)),
         poisson  |-> FDiv(FMul(FMul(Frac(9, 1), k), mu), d)]

\* C9 as claimed: with every input standard deviation 0 the program builds its
\* inputs and each propagated value is the single closed-form value at the
\* means.
C9_ZeroStdClosedForm ==
    AllStdZero /\ mcPc # "load" =>
        /\ mcPc # "failed"
        /\ mcOut.what # "none" =>
            mcOut.val = Det(ClosedForm(mcOut.of)[mcOut.what])

\* C10 as claimed: a propagation call never returns a value all of whose
\* samples are non-finite (it fails instead).
C10_AllNonFiniteFails ==
    mcOut.what # "none" => \E i \in DOMAIN mcOut.val.pts : IsFinite(mcOut.val.pts[i])

\* the stored segment of s is the extraction of its current window
SegmentOfWindow(s) ==
    LET r == get_picked_data(s)
    IN  /\ r.err = "none"
        /\ s.picked_times = r.times
        /\ s.picked_signal = r.signal

\* C11 as claimed: whenever no drag is in progress (neither signal is
\* pressed), each signal's stored segment (picked_times, picked_signal) is the
\* extraction of its current window (start, finish), and an alignment that is
\* present is the alignment of the two stored segments; this after any press,
\* motion and release, a release without an x-coordinate included.
C11_SegmentFollowsWindow ==
    ~template.pressed /\ ~query.pressed =>
        /\ \A s \in Signals : SegmentOfWindow(s)
        /\ indices # NoIndices => indices \in run_dtw(query, template)

\* C12: the window of each signal is never inverted or zero-width: start <
\* finish holds from construction on (start = times[n // 2], finish =
\* times[n // 2 + 1] of strictly increasing times), and from every reachable
\* window every adjust value gives a window with start < finish again.
C12_WindowOrdered ==
    \A s \in Signals :
        /\ s.start < s.finish
        /\ \A v \in Clicks :
            move_line(s, v).start < move_line(s, v).finish

\* both bounds of the template have been adjusted, down to the narrowest
\* window, and the drag has ended
C12_Witness ==
    /\ ~template.pressed
    /\ template.start = 0
    /\ template.finish = Micro \div 2

(***************************************************************************)
(* Specifications.                                                         *)
(***************************************************************************)
Init == UiInit /\ StatIdle /\ DtwIdle /\ McIdle

Next == UiNext

Spec == Init /\ [][Next]_vars

InitStats == StatInit /\ UiInit /\ DtwIdle /\ McIdle

NextStats == StatCall

SpecStats == InitStats /\ [][NextStats]_vars

InitDTW == DtwInit /\ UiInit /\ StatIdle /\ McIdle

NextDTW == DtwCall

SpecDTW == InitDTW /\ [][NextDTW]_vars

InitMC == McInit /\ UiInit /\ StatIdle /\ DtwIdle

NextMC == McNext

SpecMC == InitMC /\ [][NextMC]_vars

====
